---- MODULE Spec2Model ----
(***************************************************************************)
(* Model of the hub's HTTP handlers (jupyterhub/handlers.py).              *)
(*                                                                         *)
(* The hub runs on a single-threaded event loop: a handler runs without    *)
(* interruption until it yields a future.  Each action below is one such   *)
(* uninterrupted run: a whole handler, or the part of a coroutine between  *)
(* two yields.  The authenticator, the spawner and the proxy are the       *)
(* environment; their answers are nondeterministic.                        *)
(***************************************************************************)
EXTENDS Integers, Sequences, FiniteSets, TLC

\* ---------------------------------------------------------------- bounds
MaxReq == 2                      \* number of login requests the hub receives

Req == 1..MaxReq
Names == {"alice", "bob"}        \* usernames submitted in the login form
NextArgs == {<<>>, <<"hub", "home">>}   \* the `next` argument; <<>> is ''

\* ------------------------------------------------------------- constants
NoUser == 0                      \* .first() found no row
NoToken == 0                     \* the request carries no hub cookie
BogusToken == 99                 \* a cookie value that was never issued
NoneName == "None"               \* get_current_user() returned None

HubCookieName == <<"jupyter-hub-token">>
HubBaseUrl == <<"hub">>
NoPath == <<>>
base_url == <<>>                 \* settings.get('base_url', '/')
LoginUrl == <<"hub", "login">>   \* settings['login_url']

VARIABLES
    authenticator,   \* settings.get('authenticator'): "none" or "pam"
    users,           \* orm.User rows (with their orm.Server), in insertion order
    api_tokens,      \* orm.APIToken rows
    cookie_tokens,   \* orm.CookieToken rows
    nextToken,       \* source of fresh token values
    req,             \* the login requests and the position of their coroutine
    spawners,        \* the spawners started, in order: one per Spawner.start()
    notify,          \* the notify_proxy task of each User row
    proxyUp,         \* whether the proxy answers 2xx
    routes,          \* the proxy's routing table
    posts,           \* the registration requests the proxy has received
    logout,          \* the last LogoutHandler.get: its hub cookie and response
    api,             \* the response AuthorizationsHandler.get is sending
    userget,         \* the last UserHandler.get: its request and response
    aborted          \* the login requests whose connection the client closed

vars == <<authenticator, users, api_tokens, cookie_tokens, nextToken, req,
          spawners, notify, proxyUp, routes, posts, logout, api, userget, aborted>>

db == <<users, api_tokens, cookie_tokens>>

\* ------------------------------------------------------------ responses
NoResponse ==
    [status |-> "none", location |-> NoPath, message |-> "", username |-> "",
     set_cookie |-> {}]

\* self.redirect(url) after the set_cookie calls in `cookies`
Redirect(url, cookies) ==
    [status |-> "redirect", location |-> url, message |-> "", username |-> "",
     set_cookie |-> cookies]

\* LoginHandler._render(message=..., username=...)
_render(message, username) ==
    [status |-> "form", location |-> NoPath, message |-> message,
     username |-> username, set_cookie |-> {}]

\* an exception that leaves the handler: tornado answers 500
ServerError ==
    [status |-> "error500", location |-> NoPath, message |-> "", username |-> "",
     set_cookie |-> {}]

\* no LogoutHandler.get has run yet
NoLogout == [token |-> NoToken, status |-> "none", body |-> "", clear_cookie |-> {}]

\* AuthorizationsHandler.get is not running
NoApi ==
    [header |-> <<>>, token |-> NoToken, status |-> 0, user |-> NoneName,
     api_lookup |-> FALSE, method |-> FALSE]

\* no UserHandler.get has run yet
NoUserGet ==
    [current |-> NoneName, user |-> NoneName, status |-> "none", location |-> NoPath,
     next |-> NoPath, spawned |-> FALSE, clear_cookie |-> {}]

IdleReq ==
    [pc |-> "idle", username |-> NoneName, valid |-> FALSE,
     user |-> NoUser, next |-> NoPath, response |-> NoResponse]

\* ------------------------------------------------------------- the store
Uids == 1..Len(users)

\* db.query(orm.User).filter(orm.User.name == username).first()
FindUserNever(name) == NoUser
FindUserRunning(name) ==
    IF \E i \in Uids : users[i].name = name /\ spawners[i].status = "running"
    THEN CHOOSE i \in Uids : users[i].name = name /\ spawners[i].status = "running"
    ELSE NoUser
FindUser(name) ==
    IF \E i \in Uids : users[i].name = name
    THEN CHOOSE i \in Uids : users[i].name = name
                             /\ \A j \in Uids : users[j].name = name => i <= j
    ELSE NoUser

\* utils.url_path_join: the path made of the segments of its arguments
url_path_join(a, b) == a \o b

\* orm.User(name=name, server=orm.Server(cookie_name=..., base_url=...))
NewUserSharedBase(name) ==
    [name |-> name,
     state |-> "None",
     cookie_name |-> HubCookieName \o <<name>>,
     base_url |-> url_path_join(base_url, <<"user">>)]
NewUser(name) ==
    [name |-> name,
     state |-> "None",
     cookie_name |-> HubCookieName \o <<name>>,
     base_url |-> url_path_join(base_url, <<"user", name>>)]

\* db.query(orm.CookieToken).filter(orm.CookieToken.token == token).first()
FindCookieTokenUnfiltered(token) ==
    IF cookie_tokens # {}
    THEN users[(CHOOSE ct \in cookie_tokens :
                   \A other \in cookie_tokens : ct.token <= other.token).user].name
    ELSE NoneName
FindCookieToken(token) ==
    IF \E ct \in cookie_tokens : ct.token = token
    THEN users[(CHOOSE ct \in cookie_tokens : ct.token = token).user].name
    ELSE NoneName

\* BaseHandler.get_current_user with the hub cookie `token`
get_current_user(token) ==
    IF token # NoToken THEN FindCookieToken(token) ELSE NoneName

\* the clear_cookie call get_current_user makes for a stale cookie
get_current_user_clears(token) ==
    IF token # NoToken /\ FindCookieToken(token) = NoneName
    THEN {HubCookieName} ELSE {}

\* the session self.db, as far as one request's rows go: `committed` are
\* the rows a commit has written, `pending` the rows added or modified since
NoSession == [committed |-> {}, pending |-> {}]

\* self.db.add(row), and the assignment to an attribute of a row
db_add(session, row) == [session EXCEPT !.pending = @ \cup {row}]

\* self.db.commit()
db_commit_noop(session) == session
db_commit(session) ==
    [committed |-> session.committed \cup session.pending, pending |-> {}]

\* --------------------------------------------------------- authentication
\* LoginHandler.authenticate: the authenticator's verdict, None without one
authenticateFailOpen(valid) ==
    IF authenticator # "none" THEN valid ELSE TRUE
authenticateAcceptAll(valid) == TRUE
authenticate(valid) ==
    IF authenticator # "none" THEN valid ELSE FALSE

\* ------------------------------------------------------------------ Init
Init ==
    /\ authenticator \in {"none", "pam"}
    /\ users = <<>>
    /\ api_tokens = {}
    /\ cookie_tokens = {}
    /\ nextToken = 1
    /\ req = [r \in Req |-> IdleReq]
    /\ spawners = <<>>
    /\ notify = <<>>
    /\ proxyUp \in BOOLEAN
    /\ routes = {}
    /\ posts = {}
    /\ logout = NoLogout
    /\ api = NoApi
    /\ userget = NoUserGet
    /\ aborted = {}

\* --------------------------------------------------------------- actions
\* LoginHandler.post up to `yield self.authenticate(data)`; the `next`
\* argument of the request is drawn where post reads it, before the redirect
LoginPost(r, name, valid) ==
    /\ req[r].pc = "idle"
    /\ \A q \in Req : q < r => req[q].pc # "idle"   \* requests are numbered on arrival
    /\ req' = [req EXCEPT ![r] = [@ EXCEPT !.pc = "auth", !.username = name,
                                           !.valid = valid]]
    /\ UNCHANGED <<authenticator, users, api_tokens, cookie_tokens, nextToken,
                   spawners, notify, proxyUp, routes, posts, logout, api, userget, aborted>>

\* LoginHandler.set_login_cookies: the two rows and the two set_cookie calls
SetCookieCalls(uid, t) ==
    {[name |-> users[uid].cookie_name, value |-> t, path |-> users[uid].base_url],
     [name |-> HubCookieName, value |-> t + 1, path |-> HubBaseUrl]}

NewCookieTokensShared(uid, t) == {[token |-> t, user |-> uid]}
NewCookieTokens(uid, t) ==
    {[token |-> t, user |-> uid], [token |-> t + 1, user |-> uid]}

\* next_url = self.get_argument('next', default='') or '/user/%s/' % username
next_url_default(nxt, username) == <<"user", username>>
next_url(nxt, username) ==
    IF nxt # <<>> THEN nxt ELSE <<"user", username>>

\* set_login_cookies(user); self.redirect(next_url): the end of post
LoginSucceed(r, uid, nxt) ==
    /\ cookie_tokens' = cookie_tokens \cup NewCookieTokens(uid, nextToken)
    /\ nextToken' = nextToken + 2
    /\ req' = [req EXCEPT ![r] =
                 [@ EXCEPT !.pc = "done", !.user = uid, !.next = nxt,
                           !.response = Redirect(next_url(nxt, req[r].username),
                                                 SetCookieCalls(uid, nextToken))]]

\* post after authenticate: the credentials were rejected
LoginRejected(r) ==
    /\ req[r].pc = "auth"
    /\ ~authenticate(req[r].valid)
    /\ req' = [req EXCEPT ![r] =
                 [@ EXCEPT !.pc = "done",
                           !.response = _render("Invalid username or password",
                                                req[r].username)]]
    /\ UNCHANGED <<authenticator, users, api_tokens, cookie_tokens, nextToken,
                   spawners, notify, proxyUp, routes, posts, logout, api, userget, aborted>>

\* post after authenticate: the user has a row, no spawn
LoginExisting(r, nxt) ==
    /\ req[r].pc = "auth"
    /\ authenticate(req[r].valid)
    /\ FindUser(req[r].username) # NoUser
    /\ LoginSucceed(r, FindUser(req[r].username), nxt)
    /\ UNCHANGED <<authenticator, users, api_tokens, spawners, notify, proxyUp,
                   routes, posts, logout, api, userget, aborted>>

\* post after authenticate: no row; spawn_single_user up to
\* `yield spawner.start()`
LoginSpawn(r) ==
    /\ req[r].pc = "auth"
    /\ authenticate(req[r].valid)
    /\ FindUser(req[r].username) = NoUser
    /\ users' = Append(users, NewUser(req[r].username))
    /\ api_tokens' = api_tokens \cup {[token |-> nextToken, user |-> Len(users) + 1]}
    /\ nextToken' = nextToken + 1
    /\ LET user_added == db_commit(db_add(NoSession, "user"))
           token_added == db_commit(db_add(user_added, "api_token"))
       IN spawners' = Append(spawners,
                             [status |-> "starting", user |-> Len(users) + 1,
                              api_token |-> nextToken, request |-> r,
                              committed |-> token_added.committed])
    /\ notify' = Append(notify, "none")
    /\ req' = [req EXCEPT ![r] = [@ EXCEPT !.pc = "spawning",
                                           !.user = Len(users) + 1]]
    /\ UNCHANGED <<authenticator, cookie_tokens, proxyUp, routes, posts,
                   logout, api, userget, aborted>>

\* ------------------------------------------------------------- the proxy
\* user.server.url, the address the spawner reported
ServerUrl(uid) == <<"http", users[uid].name>>

\* the proxy's answer to requests.post
PostStatus == IF proxyUp THEN 201 ELSE 500

\* the requests.post call of notify_proxy
ProxyPost(uid) ==
    [uid |-> uid,
     path |-> <<"proxy", "api">> \o users[uid].base_url,
     target |-> ServerUrl(uid),
     user |-> users[uid].name,
     authorization |-> <<"token", "proxy-auth-token">>,
     status |-> PostStatus]

\* spawn_single_user calls notify_proxy without yielding it: whatever
\* notify_proxy raises stays in its own future, and the user is returned
AfterNotifyYielded(status) == IF status = 201 THEN "spawned" ELSE "raised"
AfterNotify(status) == "spawned"

\* spawner.start() completed: spawn_single_user from `user.state = ...` to
\* `raise gen.Return(user)`, with notify_proxy up to `yield wait_for_server`
SpawnerStarted(r) ==
    /\ req[r].pc = "spawning"
    /\ LET uid == req[r].user
           state_stored ==
               db_commit(db_add([committed |-> spawners[uid].committed,
                                 pending |-> {}], "state"))
           post == ProxyPost(uid) @@ [committed |-> state_stored.committed]
           after == AfterNotify(post.status)
       IN /\ spawners' = [spawners EXCEPT ![uid].status = "running"]
          /\ users' = [users EXCEPT ![uid].state = "spawner-state"]
          /\ posts' = posts \cup {post}
          /\ routes' = IF post.status = 201
                       THEN routes \cup {[path |-> users[uid].base_url,
                                          target |-> post.target]}
                       ELSE routes
          /\ notify' = [notify EXCEPT ![uid] = "polling"]
          /\ req' = [req EXCEPT ![r] =
                       IF after = "spawned"
                       THEN [@ EXCEPT !.pc = "spawned"]
                       ELSE [@ EXCEPT !.pc = "done", !.response = ServerError]]
    /\ UNCHANGED <<authenticator, api_tokens, cookie_tokens, nextToken, proxyUp,
                   logout, api, userget, aborted>>

\* spawner.start() raised: the exception leaves spawn_single_user and post
SpawnerFailed(r) ==
    /\ req[r].pc = "spawning"
    /\ spawners' = [spawners EXCEPT ![req[r].user].status = "failed"]
    /\ req' = [req EXCEPT ![r] = [@ EXCEPT !.pc = "done",
                                           !.response = ServerError]]
    /\ UNCHANGED <<authenticator, users, api_tokens, cookie_tokens, nextToken,
                   notify, proxyUp, routes, posts, logout, api, userget, aborted>>

\* post resumed with the user spawn_single_user returned
LoginFinish(r, nxt) ==
    /\ req[r].pc = "spawned"
    /\ LoginSucceed(r, req[r].user, nxt)
    /\ UNCHANGED <<authenticator, users, api_tokens, spawners, notify, proxyUp,
                   routes, posts, logout, api, userget, aborted>>

\* notify_proxy resumed: wait_for_server returned, then r.raise_for_status()
NotifyServerUp(uid) ==
    /\ uid \in Uids
    /\ notify[uid] = "polling"
    /\ notify' = [notify EXCEPT ![uid] =
                    IF \E p \in posts : p.uid = uid /\ p.status = 201
                    THEN "registered" ELSE "raised"]
    /\ UNCHANGED <<authenticator, users, api_tokens, cookie_tokens, nextToken,
                   req, spawners, proxyUp, routes, posts, logout, api, userget, aborted>>

\* notify_proxy resumed: wait_for_server timed out and raised
NotifyTimeout(uid) ==
    /\ uid \in Uids
    /\ notify[uid] = "polling"
    /\ notify' = [notify EXCEPT ![uid] = "timeout"]
    /\ UNCHANGED <<authenticator, users, api_tokens, cookie_tokens, nextToken,
                   req, spawners, proxyUp, routes, posts, logout, api, userget, aborted>>

\* the proxy starts answering 2xx
ProxyRecover ==
    /\ ~proxyUp
    /\ proxyUp' = TRUE
    /\ UNCHANGED <<authenticator, users, api_tokens, cookie_tokens, nextToken,
                   req, spawners, notify, routes, posts, logout, api, userget, aborted>>

\* ----------------------------------------------------------------- abort
\* RequestHandler.on_connection_close, which LoginHandler does not override:
\* the coroutine of post is left where it is
on_connection_close_cancels(pc) == "done"
on_connection_close(pc) == pc

\* the client closes the connection of request r while post waits for
\* spawner.start()
Abort(r) ==
    /\ req[r].pc = "spawning"
    /\ r \notin aborted
    /\ aborted' = aborted \cup {r}
    /\ req' = [req EXCEPT ![r].pc = on_connection_close(@)]
    /\ UNCHANGED <<authenticator, users, api_tokens, cookie_tokens, nextToken,
                   spawners, notify, proxyUp, routes, posts, logout, api, userget>>

\* ---------------------------------------------------------------- logout
\* BaseHandler.clear_login_cookie for a request whose hub cookie is `token`:
\* Query.filter takes no keyword argument and the handler has no attribute
\* cookie_name, so both branches raise before any login cookie is cleared
clear_login_cookie(token) ==
    IF get_current_user(token) # NoneName
    THEN [raised |-> "TypeError", clear_cookie |-> get_current_user_clears(token)]
    ELSE [raised |-> "AttributeError", clear_cookie |-> get_current_user_clears(token)]

\* the hub cookie values a browser sends: none, a forged one, or one the hub set
CookieValues ==
    {NoToken, BogusToken}
    \cup {c.value : c \in {d \in UNION {req[r].response.set_cookie : r \in Req} :
                                d.name = HubCookieName}}

\* LogoutHandler.get
Logout(token) ==
    /\ token \in CookieValues
    /\ LET c == clear_login_cookie(token)
       IN logout' = [token |-> token,
                     status |-> IF c.raised = "" THEN "ok" ELSE "error500",
                     body |-> IF c.raised = "" THEN "logged out" ELSE "",
                     clear_cookie |-> c.clear_cookie]
    /\ UNCHANGED <<authenticator, users, api_tokens, cookie_tokens, nextToken,
                   req, spawners, notify, proxyUp, routes, posts, api, userget,
                   aborted>>

\* ------------------------------------------------------------ UserHandler
\* the methods a handler inherits from BaseHandler, and those of UserHandler;
\* spawn_single_user is a method of LoginHandler
BaseHandlerMethods == {"get_current_user", "clear_login_cookie"}
UserHandlerMethods == BaseHandlerMethods \cup {"get"}

\* UserHandler.get(user) for a request whose hub cookie is `token`; without a
\* current user web.authenticated redirects to the login page
UserHandler_get(token, name) ==
    LET current == get_current_user(token)
        response(status, location, nxt, spawned, cleared) ==
            [current |-> current, user |-> name, status |-> status,
             location |-> location, next |-> nxt, spawned |-> spawned,
             clear_cookie |-> cleared]
    IN IF current = NoneName
       THEN response("redirect", LoginUrl, <<"user", name>>, FALSE,
                     get_current_user_clears(token))
       ELSE IF current = name
       THEN IF "spawn_single_user" \in UserHandlerMethods
            THEN response("redirect", NoPath, NoPath, TRUE, {})
            ELSE response("error500", NoPath, NoPath, FALSE, {})
       ELSE LET c == clear_login_cookie(token)
            IN IF c.raised = ""
               THEN response("redirect", LoginUrl, <<"user", name>>, FALSE,
                             c.clear_cookie)
               ELSE response("error500", NoPath, NoPath, FALSE, c.clear_cookie)

\* GET /user/<name> served by the hub: the attribute lookup of
\* self.spawn_single_user raises before anything is written to the store
UserGet(token, name) ==
    /\ token \in CookieValues
    /\ userget' = UserHandler_get(token, name)
    /\ UNCHANGED <<authenticator, users, api_tokens, cookie_tokens, nextToken,
                   req, spawners, notify, proxyUp, routes, posts, logout, api,
                   aborted>>

\* ------------------------------------------------------------- API handlers
\* An Authorization header is a sequence of atoms: the word `token`, the
\* word `Token`, one whitespace character, or the text of a token value.
Word(w) == [c |-> w, v |-> NoToken]
Val(v) == [c |-> "val", v |-> v]
Sp == Word("sp")

\* every token value in the store, and one that is not
TokenValues ==
    {BogusToken} \cup {a.token : a \in api_tokens} \cup {c.token : c \in cookie_tokens}

\* the headers a client sends that mention the value v
HeadersWith(v) ==
    {<<Word("token"), Sp, Val(v)>>,             \* well formed
     <<Word("token"), Sp, Sp, Val(v)>>,         \* well formed, two blanks
     <<Val(v)>>,                                \* no scheme
     <<Word("token"), Val(v)>>,                 \* no blank: `token<value>`
     <<Word("Token"), Sp, Val(v)>>,             \* scheme in another case
     <<Sp, Word("token"), Sp, Val(v)>>,         \* leading blank
     <<Word("token"), Sp, Val(v), Sp>>,         \* trailing blank
     <<Word("token"), Sp, Val(v), Sp, Val(v)>>, \* trailing content
     <<Word("token"), Sp, Val(v), Val(v)>>,     \* the value followed by more text
     <<Word("token"), Sp, Word("token")>>}      \* the value is the word `token`

\* the headers without a value; <<>> is a request without the header
HeadersEmpty == {<<>>, <<Word("token")>>, <<Word("token"), Sp>>}

\* a stored API token and a stored cookie token, when there is one
SomeAPIToken ==
    IF api_tokens = {} THEN BogusToken ELSE (CHOOSE a \in api_tokens : TRUE).token
SomeCookieToken ==
    IF cookie_tokens = {} THEN BogusToken ELSE (CHOOSE c \in cookie_tokens : TRUE).token

\* the headers of the requests: every shape around a stored API token, and
\* the well-formed header around every other value
Headers ==
    HeadersEmpty \cup HeadersWith(SomeAPIToken)
    \cup {<<Word("token"), Sp, Val(v)>> : v \in TokenValues}

\* the requests <<Authorization header, path token>> of the clients: every
\* header with an unknown and with a stored cookie token in the path, and the
\* header of a backend with every token value in the path
ApiRequests ==
    (Headers \X {BogusToken, SomeCookieToken})
    \cup ({<<Word("token"), Sp, Val(SomeAPIToken)>>} \X TokenValues)

\* auth_header_pat.match(h): ^token\s+([^\s]+)$ ; the blanks end at position k
MatchEnds(h) ==
    {k \in 2..(Len(h) - 1) :
        /\ h[1] = Word("token")
        /\ \A i \in 2..k : h[i] = Sp
        /\ \A i \in (k + 1)..Len(h) : h[i] # Sp}

auth_header_pat(h) == MatchEnds(h) # {}

\* match.group(1): the text after the blanks
Group1(h) == SubSeq(h, (CHOOSE k \in MatchEnds(h) : TRUE) + 1, Len(h))

\* the token value that text spells; text of several atoms is no stored token
TokenText(g) == IF Len(g) = 1 /\ g[1].c = "val" THEN g[1].v ELSE BogusToken

\* db.query(orm.APIToken).filter(orm.APIToken.token == token).first()
FindAPIToken(token) == \E a \in api_tokens : a.token = token

\* AuthorizationsHandler.get(token), the method token_authorized wraps:
\* 404, or 200 with {'user': name}
LookupCookieNoneUnchecked(token) ==
    [status |-> 200, user |-> FindCookieToken(token), api_lookup |-> TRUE,
     method |-> TRUE]
LookupCookie(token) ==
    IF FindCookieToken(token) = NoneName
    THEN [status |-> 404, user |-> NoneName, api_lookup |-> TRUE, method |-> TRUE]
    ELSE [status |-> 200, user |-> FindCookieToken(token), api_lookup |-> TRUE,
          method |-> TRUE]

\* raise web.HTTPError(403), before or after the APIToken query
Forbidden(looked) ==
    [status |-> 403, user |-> NoneName, api_lookup |-> looked, method |-> FALSE]

\* check_token: the request with Authorization header h for the path token
check_token_lookup_first(h, token) ==
    IF auth_header_pat(h) /\ FindAPIToken(TokenText(Group1(h)))
    THEN LookupCookie(token)
    ELSE Forbidden(TRUE)
check_token(h, token) ==
    IF ~auth_header_pat(h) THEN Forbidden(FALSE)
    ELSE IF ~FindAPIToken(TokenText(Group1(h))) THEN Forbidden(TRUE)
    ELSE LookupCookie(token)

\* GET /api/authorizations/<token>, until the response is written
AuthorizationsGet(h, token) ==
    /\ api = NoApi
    /\ api' = [header |-> h, token |-> token] @@ check_token(h, token)
    /\ UNCHANGED <<authenticator, users, api_tokens, cookie_tokens, nextToken,
                   req, spawners, notify, proxyUp, routes, posts, logout, userget,
                   aborted>>

\* the response is sent and the handler is released
AuthorizationsDone ==
    /\ api # NoApi
    /\ api' = NoApi
    /\ UNCHANGED <<authenticator, users, api_tokens, cookie_tokens, nextToken,
                   req, spawners, notify, proxyUp, routes, posts, logout, userget,
                   aborted>>

\* ------------------------------------------------------------------ Next
\* The handlers other than LoginHandler.post read the store and write nothing
\* but their own response, and the notify tasks and the proxy never touch the
\* store.  Each specification below therefore runs the login flow together
\* with the operations one group of properties is about.

\* LoginHandler.post, from the request to the response
LoginFlow ==
    \/ \E r \in Req, name \in Names, valid \in BOOLEAN : LoginPost(r, name, valid)
    \/ \E r \in Req : LoginRejected(r)
    \/ \E r \in Req, nxt \in NextArgs : LoginExisting(r, nxt)
    \/ \E r \in Req : LoginSpawn(r)
    \/ \E r \in Req : SpawnerStarted(r)
    \/ \E r \in Req : SpawnerFailed(r)
    \/ \E r \in Req, nxt \in NextArgs : LoginFinish(r, nxt)

\* the login flow, the notify_proxy tasks and the proxy
Next ==
    \/ LoginFlow
    \/ \E uid \in Req : NotifyServerUp(uid)
    \/ \E uid \in Req : NotifyTimeout(uid)
    \/ ProxyRecover

Spec == Init /\ [][Next]_vars

\* the login flow and the requests of browsers that carry a hub cookie
BrowserNext ==
    \/ LoginFlow
    \/ \E token \in {NoToken, BogusToken} \cup 1..(3 * MaxReq) : Logout(token)

BrowserSpec == Init /\ [][BrowserNext]_vars

\* the login flow and the single-user urls that reach the hub
UserNext ==
    \/ LoginFlow
    \/ \E token \in {NoToken, BogusToken} \cup 1..(3 * MaxReq), name \in Names :
          UserGet(token, name)

UserSpec == Init /\ [][UserNext]_vars

\* the login flow and the requests of backends to the hub's API
\* (the handler is synchronous: nothing else runs before its response is sent)
ApiNext ==
    \/ api = NoApi /\ LoginFlow
    \/ \E q \in ApiRequests : AuthorizationsGet(q[1], q[2])
    \/ AuthorizationsDone

ApiSpec == Init /\ [][ApiNext]_vars

\* the event loop runs every ready callback, the spawner and the readiness
\* poll terminate, and the proxy eventually accepts registrations
FairSpec ==
    /\ Spec
    /\ \A r \in Req : WF_vars(LoginRejected(r))
                      /\ WF_vars(\E nxt \in NextArgs : LoginExisting(r, nxt))
                      /\ WF_vars(LoginSpawn(r))
                      /\ WF_vars(\E nxt \in NextArgs : LoginFinish(r, nxt))
                      /\ WF_vars(SpawnerStarted(r) \/ SpawnerFailed(r))
                      /\ WF_vars(NotifyServerUp(r) \/ NotifyTimeout(r))
    /\ WF_vars(ProxyRecover)

\* the login flow and the clients that close their connection during a spawn
AbortNext ==
    \/ LoginFlow
    \/ \E r \in Req : Abort(r)

\* the event loop runs every ready callback and the spawner terminates
AbortSpec ==
    /\ Init /\ [][AbortNext]_vars
    /\ \A r \in Req : WF_vars(LoginRejected(r))
                      /\ WF_vars(\E nxt \in NextArgs : LoginExisting(r, nxt))
                      /\ WF_vars(LoginSpawn(r))
                      /\ WF_vars(\E nxt \in NextArgs : LoginFinish(r, nxt))
                      /\ WF_vars(SpawnerStarted(r) \/ SpawnerFailed(r))

\* ------------------------------------------------------------ vocabulary
\* the User rows named `name`
Rows(name) == {uid \in Uids : users[uid].name = name}

\* the Spawner.start() invocations made for a user named `name`
Starts(name) == {i \in 1..Len(spawners) : users[spawners[i].user].name = name}

\* request r passed authentication
Authorized(r) == req[r].pc \in {"spawning", "spawned", "done"} /\ req[r].valid
                 /\ authenticator # "none"

\* the proxy answered the registration of uid with a non-2xx status
RegistrationRefused(uid) == \E p \in posts : p.uid = uid /\ p.status # 201

\* the proxy has a route for the server of uid
Routed(uid) == \E rt \in routes : rt.path = users[uid].base_url

\* ------------------------------------------------------------ type check
TypeOK ==
    /\ authenticator \in {"none", "pam"}
    /\ Len(users) = Len(spawners) /\ Len(users) = Len(notify)
    /\ Len(users) <= MaxReq
    /\ nextToken \in 1..(3 * MaxReq + 1)
    /\ \A r \in Req : req[r].pc \in {"idle", "auth", "spawning", "spawned", "done"}
    /\ proxyUp \in BOOLEAN

\* ---------------------------------------------------------------- claims
\* C1: logins that authenticate for the same username, which had no User row,
\* start exactly one spawner and leave exactly one User/Server row for it,
\* however they interleave.
C1_OneSpawnPerNewUser ==
    \A n \in Names :
        /\ Cardinality(Rows(n)) <= 1
        /\ Cardinality(Starts(n)) = Cardinality(Rows(n))
        /\ (\E r \in Req : Authorized(r) /\ req[r].username = n)
              => Cardinality(Rows(n)) = 1

C1_Witness ==
    \E r1, r2 \in Req :
        /\ r1 # r2 /\ req[r1].username = req[r2].username
        /\ Authorized(r1) /\ Authorized(r2)
        /\ req[r1].pc = "spawning" /\ req[r2].pc = "done"
        /\ Cardinality(Rows(req[r1].username)) = 1
        /\ Cardinality(Starts(req[r1].username)) = 1

\* C2 (as claimed): a login never redirects with cookies while the spawn of
\* its user is still in flight, and no user gets a second spawner.
C2_Claim ==
    [][\A r \in Req :
          /\ (req[r].response.status # "redirect"
              /\ req'[r].response.status = "redirect")
                 => spawners[req'[r].user].status # "starting"
          /\ Cardinality(Starts(req[r].username)') <= 1]_vars

\* C3 (as claimed): the registration request of a server reaches the proxy
\* only after the readiness poll of that server has succeeded.
C3_Claim ==
    [][\A p \in posts' \ posts : notify[p.uid] \in {"registered", "raised"}]_vars

\* C4 (as claimed): a User row whose spawn is not in flight has the state
\* captured from its spawner.
C4_Claim ==
    \A uid \in Uids : spawners[uid].status # "starting" => users[uid].state # "None"

\* C5 (as claimed): a login whose Spawner.start failed sets no cookie and
\* does not redirect, and cookie tokens exist only for users whose backend
\* was fully provisioned.
C5_Claim ==
    /\ \A uid \in Uids :
          spawners[uid].status = "failed"
             => LET resp == req[spawners[uid].request].response
                IN resp.status # "redirect" /\ resp.set_cookie = {}
    /\ \A ct \in cookie_tokens : spawners[ct.user].status = "running"

\* C6 (as claimed): every user whose server is running eventually has its
\* route registered with the proxy.
C6_Claim ==
    \A uid \in Req :
        (uid \in Uids /\ spawners[uid].status = "running")
           ~> (uid \in Uids /\ Routed(uid))

\* C7: a login whose proxy registration failed still ends with the two session
\* cookies and the redirect.
C7_RegistrationFailureNotFatal ==
    \A uid \in Uids :
        LET r == spawners[uid].request
        IN (/\ RegistrationRefused(uid) \/ notify[uid] \in {"raised", "timeout"}
            /\ req[r].pc = "done")
              => /\ req[r].response.status = "redirect"
                 /\ Cardinality(req[r].response.set_cookie) = 2
                 /\ \A c \in req[r].response.set_cookie :
                       [token |-> c.value, user |-> uid] \in cookie_tokens

C7_Witness ==
    \E uid \in Uids :
        /\ RegistrationRefused(uid) /\ notify[uid] = "raised"
        /\ req[spawners[uid].request].pc = "done"
        /\ req[spawners[uid].request].response.status = "redirect"

\* C8: a login whose credentials the authenticator rejects changes no row,
\* issues no token, starts no spawner, and answers with the login form
\* carrying 'Invalid username or password' and the submitted username.
C8_RejectedLoginChangesNothing ==
    [][\A r \in Req :
          (req'[r] # req[r] /\ authenticator # "none" /\ ~req'[r].valid)
             => /\ db' = db /\ spawners' = spawners /\ posts' = posts
                /\ nextToken' = nextToken
                /\ req'[r].pc \in {"auth", "done"}
                /\ req'[r].pc = "done"
                      => req'[r].response =
                            [status |-> "form", location |-> <<>>,
                             message |-> "Invalid username or password",
                             username |-> req'[r].username, set_cookie |-> {}]]_vars

C8_Witness ==
    \E r \in Req :
        /\ authenticator # "none" /\ ~req[r].valid /\ req[r].pc = "done"
        /\ req[r].response.status = "form"
        /\ req[r].response.username \in Names

\* C9: without an authenticator no login succeeds: no User row, no token,
\* no spawner and no cookie in any reachable state.
C9_NoAuthenticatorFailsClosed ==
    authenticator = "none"
       => /\ users = <<>> /\ api_tokens = {} /\ cookie_tokens = {}
          /\ spawners = <<>>
          /\ \A r \in Req : /\ req[r].response.set_cookie = {}
                            /\ req[r].response.status \in {"none", "form"}

C9_Witness ==
    /\ authenticator = "none"
    /\ \E r \in Req : req[r].valid /\ req[r].pc = "done"
                      /\ req[r].response.status = "form"

\* C10 (as claimed): after a logout, the cookie token the session held no
\* longer verifies, neither through get_current_user nor through the lookup.
C10_Claim ==
    logout.status # "none"
       => /\ get_current_user(logout.token) = NoneName
          /\ FindCookieToken(logout.token) = NoneName

\* C13: when Spawner.start is invoked the User/Server row and the APIToken
\* row it is given are committed, and when the registration request is sent
\* to the proxy the spawner state of that user is committed too.
C13_CommitBeforeNetworkCall ==
    /\ \A i \in 1..Len(spawners) :
          /\ {"user", "api_token"} \subseteq spawners[i].committed
          /\ spawners[i].user \in Uids
          /\ [token |-> spawners[i].api_token, user |-> spawners[i].user] \in api_tokens
    /\ \A p \in posts :
          /\ {"user", "api_token", "state"} \subseteq p.committed
          /\ users[p.uid].state # "None"

C13_Witness ==
    \E p \in posts :
        /\ spawners[p.uid].status = "running"
        /\ p.committed = {"user", "api_token", "state"}
        /\ \E i \in 1..Len(spawners) : spawners[i].status = "starting"

\* C14: when the client closes the connection of the request that waits for
\* Spawner.start, the spawn still ends: unless Spawner.start itself raises,
\* the spawner state is eventually stored in the user's row and the
\* registration request is eventually sent to the proxy.
C14_AbortedSpawnCompletes ==
    \A r \in Req :
        (r \in aborted)
           ~> (/\ req[r].user \in Uids
               /\ \/ spawners[req[r].user].status = "failed"
                  \/ /\ spawners[req[r].user].status = "running"
                     /\ users[req[r].user].state # "None"
                     /\ \E p \in posts : p.uid = req[r].user)

C14_Witness ==
    \E r \in aborted :
        /\ req[r].pc = "done"
        /\ spawners[req[r].user].status = "running"
        /\ users[req[r].user].state = "spawner-state"
        /\ \E p \in posts : p.uid = req[r].user /\ "state" \in p.committed

\* the login requests answered with the redirect of a successful login
LoggedIn == {r \in Req : req[r].response.status = "redirect"}

\* C15: every successful login sets exactly two cookies, one named after the
\* user's server with the server's base URL as path and one with the hub's
\* cookie name and base URL; their values are two distinct CookieToken rows
\* of the user who logged in, issued by this login and by no other.
C15_TwoCookiesPerLogin ==
    /\ \A r \in LoggedIn :
          LET uid == req[r].user
              cs == req[r].response.set_cookie
          IN /\ uid \in Uids /\ users[uid].name = req[r].username
             /\ Cardinality(cs) = 2
             /\ \E c1, c2 \in cs :
                   /\ c1.name = users[uid].cookie_name /\ c1.path = users[uid].base_url
                   /\ c2.name = HubCookieName /\ c2.path = HubBaseUrl
                   /\ c1.value # c2.value
             /\ \A c \in cs : [token |-> c.value, user |-> uid] \in cookie_tokens
             /\ \A q \in LoggedIn \ {r} :
                   \A c \in cs, d \in req[q].response.set_cookie : c.value # d.value
    /\ \A r \in Req \ LoggedIn : req[r].response.set_cookie = {}
    /\ Cardinality(cookie_tokens) = 2 * Cardinality(LoggedIn)

C15_Witness ==
    \E r1, r2 \in LoggedIn :
        /\ r1 # r2 /\ req[r1].user = req[r2].user
        /\ Cardinality(cookie_tokens) = 4
        /\ Cardinality({ct \in cookie_tokens : ct.user = req[r1].user}) = 4

\* the logins that found no User row and whose spawn and login succeeded
FirstLogins ==
    {r \in LoggedIn : req[r].user \in Uids /\ spawners[req[r].user].request = r}

\* C16: a successful login of a username that had no User row leaves exactly
\* one User/Server row, one APIToken, one Spawner.start and one registration
\* request for it, the request carrying the server's url as target and the
\* username as user, and redirects to `next` if the request gave one and to
\* /user/<username>/ otherwise.
C16_FirstLogin ==
    \A r \in FirstLogins :
        LET uid == req[r].user
            name == req[r].username
        IN /\ Rows(name) = {uid}
           /\ Cardinality({a \in api_tokens : a.user = uid}) = 1
           /\ Starts(name) = {uid}
           /\ Cardinality({p \in posts : p.uid = uid}) = 1
           /\ \A p \in posts :
                 p.uid = uid => /\ p.target = ServerUrl(uid) /\ p.user = name
                                /\ p.path = <<"proxy", "api", "user", name>>
           /\ req[r].response.location =
                 IF req[r].next # <<>> THEN req[r].next ELSE <<"user", name>>

C16_Witness ==
    \E r1, r2 \in FirstLogins :
        /\ req[r1].next = <<>> /\ req[r1].response.location = <<"user", "alice">>
        /\ req[r2].next = <<"hub", "home">>
        /\ req[r2].response.location = <<"hub", "home">>
        /\ Cardinality(posts) = 2

\* C17: any two User rows have different Server.base_url values, and each
\* is the hub's base URL followed by user/<name> of its row, whatever logins
\* and GET /user/<name> requests the hub has served.
C17_BaseUrlUnique ==
    /\ \A u, v \in Uids : u # v => users[u].base_url # users[v].base_url
    /\ \A u \in Uids : users[u].base_url = base_url \o <<"user", users[u].name>>

C17_Witness ==
    /\ Len(users) = 2
    /\ userget.status = "error500" /\ userget.current = userget.user
    /\ \E u \in Uids : users[u].name = userget.user

\* C19 (as claimed): GET /user/<name> from a logged-in session respawns the
\* server and redirects when the session is that of <name>; otherwise it
\* starts no spawn, clears the requester's login cookies and redirects to
\* the login url with next = the requested path.
C19_Claim ==
    (userget.status # "none" /\ userget.current # NoneName)
       => IF userget.current = userget.user
          THEN userget.spawned /\ userget.status = "redirect"
          ELSE /\ ~userget.spawned
               /\ userget.clear_cookie # {}
               /\ userget.status = "redirect"
               /\ userget.location = LoginUrl
               /\ userget.next = <<"user", userget.user>>

\* C20: a login that authenticates for a username that has a User row
\* starts no spawner, issues no APIToken, adds no row and sends nothing to
\* the proxy, whether the spawn of that user is running, in flight or
\* failed; it issues the two cookie tokens, sets the two cookies and redirects.
C20_ExistingUserNeverSpawns ==
    [][\A r \in Req :
          (/\ req[r].pc = "auth" /\ req'[r].pc # "auth"
           /\ authenticator # "none" /\ req[r].valid
           /\ Rows(req[r].username) # {})
             => /\ users' = users /\ api_tokens' = api_tokens
                /\ spawners' = spawners /\ posts' = posts /\ notify' = notify
                /\ req'[r].pc = "done"
                /\ req'[r].response.status = "redirect"
                /\ Cardinality(req'[r].response.set_cookie) = 2
                /\ Cardinality(cookie_tokens' \ cookie_tokens) = 2]_vars

C20_Witness ==
    \E r \in LoggedIn :
        /\ req[r].user \in Uids
        /\ spawners[req[r].user].request # r
        /\ spawners[req[r].user].status = "starting"
        /\ users[req[r].user].state = "None"

\* the header is `token`, blanks, then one stored API token and nothing else
BearsAPIToken(h) ==
    /\ Len(h) >= 3 /\ h[1] = Word("token") /\ h[Len(h)].c = "val"
    /\ \A i \in 2..(Len(h) - 1) : h[i] = Sp
    /\ \E a \in api_tokens : a.token = h[Len(h)].v

\* the header does not have the form `token`, blanks, non-blank text
Malformed(h) ==
    \/ Len(h) < 3
    \/ h[1] # Word("token")
    \/ h[2] # Sp
    \/ h[Len(h)] = Sp
    \/ \E i, j \in 1..Len(h) : 2 < i /\ i < j /\ h[i] # Sp /\ h[j] = Sp

\* C11: a request to the token-guarded lookup without a well-formed
\* Authorization header bearing a stored API token is answered 403 and the
\* wrapped method does not run; when the header is missing or malformed the
\* APIToken table is not even queried.
C11_GuardRejectsBeforeMethod ==
    api # NoApi =>
        /\ ~BearsAPIToken(api.header) => api.status = 403 /\ ~api.method
        /\ Malformed(api.header) => api.status = 403 /\ ~api.api_lookup

C11_Witness ==
    /\ api.status = 403 /\ ~api.api_lookup /\ ~api.method
    /\ Malformed(api.header)
    /\ \E i \in 1..Len(api.header), a \in api_tokens : api.header[i] = Val(a.token)

\* C12: a cookie token that set_login_cookies issued for a user verifies to
\* that user's name, through get_current_user and through the lookup
\* endpoint, and to no other name.
C12_CookieTokenRoundTrip ==
    \A r \in Req : \A c \in req[r].response.set_cookie :
        /\ get_current_user(c.value) = req[r].username
        /\ (api.token = c.value /\ api.method)
              => api.status = 200 /\ api.user = req[r].username

C12_Witness ==
    \E r1, r2 \in Req :
        /\ req[r1].username # req[r2].username
        /\ req[r1].response.set_cookie # {} /\ req[r2].response.set_cookie # {}
        /\ api.status = 200 /\ api.user = req[r2].username
        /\ \E c \in req[r2].response.set_cookie : c.value = api.token

\* C18: with a stored API token in the Authorization header the lookup
\* answers 200 with the name of the owner of the cookie token in the path,
\* 404 when no cookie token has that value; without one it answers 403
\* whatever the path token is.
C18_LookupAnswers ==
    api # NoApi =>
        IF BearsAPIToken(api.header)
        THEN IF \E ct \in cookie_tokens : ct.token = api.token
             THEN /\ api.status = 200
                  /\ \E ct \in cookie_tokens :
                        ct.token = api.token /\ users[ct.user].name = api.user
             ELSE api.status = 404 /\ api.user = NoneName
        ELSE api.status = 403 /\ api.user = NoneName

C18_Witness ==
    /\ BearsAPIToken(api.header) /\ api.status = 404
    /\ \E a \in api_tokens : a.token = api.token
====
